---- MODULE Spec2Model ----
(***************************************************************************)
(* A model of audimeta_splitter.audio_splitter.AudioSplitter: one folder   *)
(* of files, and process_folder run on it several times in a row.  The     *)
(* external tools (ffmpeg, mutagen, the AudiMeta service, the file system) *)
(* are nondeterministic: each call may succeed or fail in the ways the     *)
(* code distinguishes.                                                     *)
(*                                                                         *)
(* A file name is a sequence of one-character strings, so that building,   *)
(* sanitizing, lower-casing and sorting names is modelled on characters.   *)
(***************************************************************************)
EXTENDS Integers, Sequences, FiniteSets, TLC

(* ------------------------------ bounds -------------------------------- *)

\* process_folder is run at most MaxRuns times on the same folder.
MaxRuns == 2

\* The service returns at most MaxChapters chapters.
MaxChapters == 2

\* At most MaxFailedRemovals removals of original files fail in one run.
MaxFailedRemovals == 1

(* ---------------------------- characters ------------------------------ *)

\* The printable ASCII characters, in code point order (32 .. 126); the
\* grave accent (96), which no name of the model holds, is a placeholder.
Ascii ==
  << " ", "!", "\"", "#", "$", "%", "&", "'", "(", ")", "*", "+", ",", "-",
     ".", "/", "0", "1", "2", "3", "4", "5", "6", "7", "8", "9", ":", ";",
     "<", "=", ">", "?", "@", "A", "B", "C", "D", "E", "F", "G", "H", "I",
     "J", "K", "L", "M", "N", "O", "P", "Q", "R", "S", "T", "U", "V", "W",
     "X", "Y", "Z", "[", "\\", "]", "^", "_", "(grave)", "a", "b", "c", "d", "e",
     "f", "g", "h", "i", "j", "k", "l", "m", "n", "o", "p", "q", "r", "s",
     "t", "u", "v", "w", "x", "y", "z", "{", "|", "}", "~" >>

\* ord(c)
CodePoint(c) == 31 + (CHOOSE k \in 1..Len(Ascii) : Ascii[k] = c)

\* c.lower()
LowerChar(c) ==
  LET cp == CodePoint(c)
  IN  IF cp >= 65 /\ cp <= 90 THEN Ascii[cp + 32 - 31] ELSE c

\* s.lower()
Lower(s) == [k \in 1..Len(s) |-> LowerChar(s[k])]

\* s.endswith(suffix)
EndsWith(s, suffix) ==
  /\ Len(s) >= Len(suffix)
  /\ SubSeq(s, Len(s) - Len(suffix) + 1, Len(s)) = suffix

\* s < t for Python strings: lexicographic by code point.
RECURSIVE StrLess(_, _)
StrLess(s, t) ==
  IF t = <<>> THEN FALSE
  ELSE IF s = <<>> THEN TRUE
  ELSE IF s[1] = t[1] THEN StrLess(Tail(s), Tail(t))
  ELSE CodePoint(s[1]) < CodePoint(t[1])

\* sorted(S) for a set of strings.
RECURSIVE Sorted(_)
Sorted(S) ==
  IF S = {} THEN <<>>
  ELSE LET least == CHOOSE s \in S : \A t \in S \ {s} : StrLess(s, t)
       IN  <<least>> \o Sorted(S \ {least})

\* The elements of a sequence.
Range(s) == {s[k] : k \in 1..Len(s)}

\* The decimal digits of n >= 0.
RECURSIVE Decimal(_)
Decimal(n) ==
  IF n < 10 THEN <<Ascii[n + 17]>>
  ELSE Decimal(n \div 10) \o <<Ascii[(n % 10) + 17]>>

\* f"{i:02d}"
Pad2(i) == IF i < 10 THEN <<"0">> \o Decimal(i) ELSE Decimal(i)

(* ------------------------- sanitize_filename --------------------------- *)

\* invalid_chars: the nine characters removed from a title.
invalid_chars == {"<", ">", ":", "\"", "/", "\\", "|", "?", "*"}

\* The cap on the length of a sanitized title.
MaxTitleLen == 200

\* The characters str.strip() removes.
WhiteSpace == {" ", "\t", "\n", "\r"}

RECURSIVE LStrip(_)
LStrip(s) ==
  IF s # <<>> /\ s[1] \in WhiteSpace THEN LStrip(Tail(s)) ELSE s

RECURSIVE RStrip(_)
RStrip(s) ==
  IF s # <<>> /\ s[Len(s)] \in WhiteSpace
  THEN RStrip(SubSeq(s, 1, Len(s) - 1))
  ELSE s

\* s.strip()
Strip(s) == RStrip(LStrip(s))

NotInvalid(c) == c \notin invalid_chars

\* A sanitizer that puts an underscore where it finds an invalid character.
sanitize_filename_substituting(filename) ==
  LET kept     == [k \in 1..Len(filename) |->
                     IF NotInvalid(filename[k]) THEN filename[k] ELSE "_"]
      stripped == Strip(kept)
  IN  IF Len(stripped) > MaxTitleLen
      THEN SubSeq(stripped, 1, MaxTitleLen)
      ELSE stripped

sanitize_filename(filename) ==
  LET kept     == SelectSeq(filename, NotInvalid)
      stripped == Strip(kept)
  IN  IF Len(stripped) > MaxTitleLen
      THEN SubSeq(stripped, 1, MaxTitleLen)
      ELSE stripped

(* ------------------------------ the folder ----------------------------- *)

\* self.combined_file = "combined_temp.mp3"
combined_file_name ==
  <<"c","o","m","b","i","n","e","d","_","t","e","m","p",".","m","p","3">>

Mp3Suffix == <<".","m","p","3">>

\* The folders the first run may find: no file, no MP3 file, one MP3 file,
\* two MP3 files beside a file that is no MP3 file.
UserFolders ==
  { {},
    { <<"n",".","t","x","t">> },
    { <<"a",".","m","p","3">> },
    { <<"a",".","m","p","3">>, <<"B",".","M","P","3">>,
      <<"n",".","t","x","t">> } }

\* No tags written (by this tool) in a file.
NoTags == [title |-> <<>>, track |-> <<>>, artist |-> <<>>, album |-> <<>>]

\* What a file holds: who wrote it, its playable length in seconds, its tags.
UserContent == [kind |-> "orig", len |-> 600, tags |-> NoTags]

\* The file is left half-written by a tool that failed.
PartialContent == [kind |-> "partial", len |-> 0, tags |-> NoTags]

Exists(files, name) == name \in DOMAIN files

\* The folder with `name` written (created or overwritten).
WriteFile(files, name, content) ==
  [f \in (DOMAIN files) \cup {name} |-> IF f = name THEN content ELSE files[f]]

\* The folder with the files of `names` removed.
RemoveFiles(files, names) ==
  [f \in (DOMAIN files) \ names |-> files[f]]

(* ------------------------- the AudiMeta service ------------------------ *)

\* The chapters /chapters/{asin} may return (title, startOffsetSec, lengthMs);
\* the last one comes with a start offset only, and chapter.get('lengthMs', 0)
\* is 0 for it.
RawChapterPool ==
  { [title |-> <<"I","n","t","r","o">>,
     startOffsetSec |-> 0,   lengthMs |-> 300000],
    [title |-> <<" ","M","i","d","?">>,
     startOffsetSec |-> 300, lengthMs |-> 600500],
    [title |-> <<"E","n","d">>,
     startOffsetSec |-> 900, lengthMs |-> 0] }

\* The sequences of at most n distinct elements of S, in any order.
RECURSIVE SeqsUpTo(_, _)
SeqsUpTo(S, n) ==
  IF n = 0 THEN {<<>>}
  ELSE LET shorter == SeqsUpTo(S, n - 1)
           longest == {t \in shorter : Len(t) = n - 1}
       IN  shorter \cup
           UNION {{Append(t, x) : x \in S \ Range(t)} : t \in longest}

\* The "chapters" arrays the service may return.
RawChapterLists == SeqsUpTo(RawChapterPool, MaxChapters)

\* An entry of a book's "authors" list, with its "name" key or without it.
Author(name) == [has_name |-> TRUE, name |-> name]

NamelessAuthor == [has_name |-> FALSE, name |-> <<>>]

\* The books a /search answer may hold: one with an author, one whose
\* "authors" list is empty.
Books ==
  { [asin |-> "B1", title |-> <<"B","o","o","k">>,
     has_authors |-> TRUE, authors |-> <<Author(<<"A","n","n">>)>>],
    [asin |-> "B2", title |-> <<"B","o","o","k">>,
     has_authors |-> TRUE, authors |-> <<>>] }

\* The book_metadata dictionaries a caller may hand to split_by_chapters:
\* those above, one without the "authors" key, one whose first author has
\* no "name" key.
BookDicts ==
  Books \cup
  { [asin |-> "B3", title |-> <<"B","o","o","k">>,
     has_authors |-> FALSE, authors |-> <<>>],
    [asin |-> "B4", title |-> <<"B","o","o","k">>,
     has_authors |-> TRUE, authors |-> <<NamelessAuthor>>] }

\* The /search answers: a list of at most two books.
SearchResults == SeqsUpTo(Books, 2)

\* Python's None where a book is expected.
NoBook == [asin |-> "", title |-> <<>>, has_authors |-> FALSE, authors |-> <<>>]

\* book.get('authors', [{'name': default}])
AuthorsOrDefault(book, default) ==
  IF book.has_authors THEN book.authors ELSE <<Author(default)>>

\* book.get('authors', [...])[0] raises IndexError.
FirstAuthorRaises(book) == book.has_authors /\ book.authors = <<>>

\* book.get('authors', [{'name': default}])[0].get('name', default)
FirstAuthorName(book, default) ==
  LET first == AuthorsOrDefault(book, default)[1]
  IN  IF first.has_name THEN first.name ELSE default

\* Python's None where the search seed is expected.
NoMetadata == [title |-> <<>>, author |-> <<>>, region |-> ""]

\* Python's None where a chapter list is expected.
NoChapters == [none |-> TRUE, list |-> <<>>]

(* ------------------------------- state --------------------------------- *)

VARIABLES
  fs,                   \* the folder: file name -> content
  start_fs,             \* the folder as it was when the run started
  file_list,            \* whether files.txt exists in the working directory
  pc,                   \* where process_folder is
  runs,                 \* how many runs were started
  mp3_files,            \* process_folder's mp3_files
  metadata,             \* the search seed read from the first file, or None
  original_files,       \* process_folder's original_files
  total_duration,       \* process_folder's total_duration
  book_metadata,        \* the book resolved, or None
  results,              \* get_user_choice's results (the /search answer)
  choice,               \* the number of the book selected (0: none)
  confirm,              \* get_user_choice's confirm: the answer, lower-cased
  search_title,         \* manual_search's title: the title typed, stripped
  raw_chapters,         \* the "chapters" array the service answered
  chapters,             \* the processed chapter list
  combined_file,        \* the file the chapters are cut from
  combine_status,       \* combine_mp3_files: "none", "ok" or "raise"
  next_entry,           \* split_by_chapters: the index i of the next entry
  successful_splits,    \* split_by_chapters' counter
  commands,             \* the extraction commands run so far, in order
  entry_outcomes,       \* per entry: "success", "cut-failed", "tag-failed"
                        \* or "tag-raised"
  splitting_successful, \* split_by_chapters' result
  cleanup_successful,   \* process_folder's cleanup_successful
  cleanup_failures,     \* the cleanup steps in which a removal raised
  summary,              \* the final summary printed
  result,               \* what process_folder returned (once pc is "done")
  exit_code             \* main's exit code

vars ==
  << fs, start_fs, file_list, pc, runs, mp3_files, metadata, original_files,
     raw_chapters, total_duration, results, choice, confirm, search_title,
     book_metadata, chapters, combined_file, combine_status, next_entry,
     successful_splits, commands, entry_outcomes, splitting_successful,
     cleanup_successful, cleanup_failures, summary, result, exit_code >>

\* The variables of one run, as they are before the run has set them.
RunVarsFresh ==
  /\ mp3_files = <<>>
  /\ metadata = NoMetadata
  /\ original_files = <<>>
  /\ total_duration = 0
  /\ book_metadata = NoBook
  /\ results = <<>>
  /\ choice = 0
  /\ confirm = ""
  /\ search_title = <<>>
  /\ raw_chapters = <<>>
  /\ chapters = <<>>
  /\ combined_file = <<>>
  /\ combine_status = "none"
  /\ next_entry = 1
  /\ successful_splits = 0
  /\ commands = <<>>
  /\ entry_outcomes = <<>>
  /\ splitting_successful = FALSE
  /\ cleanup_successful = TRUE
  /\ cleanup_failures = {}
  /\ summary = "none"
  /\ result = FALSE
  /\ exit_code = -1

Init ==
  /\ fs \in {[f \in S |-> UserContent] : S \in UserFolders}
  /\ start_fs = fs
  /\ file_list = FALSE
  /\ pc = "idle"
  /\ runs = 0
  /\ RunVarsFresh

(* --------------------------- process_folder ---------------------------- *)

\* sorted([f for f in os.listdir(folder) if f.lower().endswith('.mp3')])
get_mp3_files(files) ==
  Sorted({f \in DOMAIN files : EndsWith(Lower(f), Mp3Suffix)})

\* process_folder returns False; main exits 1.
ReturnFalse(message) ==
  /\ pc' = "done"
  /\ result' = FALSE
  /\ summary' = message
  /\ exit_code' = 1

\* A new run starts: get_mp3_files (an unreadable folder gives no files),
\* the check for no files, and original_files.
ProcessFolderStart ==
  /\ pc \in {"idle", "done"}
  /\ runs < MaxRuns
  /\ runs' = runs + 1
  /\ \E listed \in BOOLEAN :
       LET found == IF listed THEN get_mp3_files(fs) ELSE <<>>
       IN  /\ mp3_files' = found
           /\ IF found = <<>>
              THEN /\ ReturnFalse("aborted")
                   /\ original_files' = <<>>
              ELSE /\ pc' = "metadata"
                   /\ original_files' = found
                   /\ result' = FALSE
                   /\ summary' = "none"
                   /\ exit_code' = -1
  /\ metadata' = NoMetadata
  /\ total_duration' = 0
  /\ book_metadata' = NoBook
  /\ results' = <<>>
  /\ choice' = 0
  /\ confirm' = ""
  /\ search_title' = <<>>
  /\ raw_chapters' = <<>>
  /\ chapters' = <<>>
  /\ combined_file' = <<>>
  /\ combine_status' = "none"
  /\ next_entry' = 1
  /\ successful_splits' = 0
  /\ commands' = <<>>
  /\ entry_outcomes' = <<>>
  /\ splitting_successful' = FALSE
  /\ cleanup_successful' = TRUE
  /\ cleanup_failures' = {}
  /\ start_fs' = fs
  /\ UNCHANGED <<fs, file_list>>

FallbackTitle == <<"M","o","t","h","e","r">>

FallbackAuthor ==
  <<"m",".","s","."," ","R","e","d","C","h","e","r","r","i","e","s">>

\* get_metadata_from_file: None when the file cannot be read as MP3.
get_metadata_from_file(content, readable) ==
  IF ~readable THEN NoMetadata
  ELSE IF content.tags # NoTags
  THEN [title  |-> IF content.tags.title # <<>> THEN content.tags.title
                   ELSE IF content.tags.album # <<>> THEN content.tags.album
                   ELSE FallbackTitle,
        author |-> IF content.tags.artist # <<>> THEN content.tags.artist
                   ELSE FallbackAuthor,
        region |-> "US"]
  ELSE [title |-> FallbackTitle, author |-> FallbackAuthor, region |-> "US"]

\* Metadata of the first file; no metadata ends the run.
GetMetadata ==
  /\ pc = "metadata"
  /\ \E readable \in BOOLEAN :
       LET m == get_metadata_from_file(fs[mp3_files[1]], readable)
       IN  /\ metadata' = m
           /\ IF m = NoMetadata
              THEN ReturnFalse("aborted")
              ELSE /\ pc' = "duration"
                   /\ UNCHANGED <<result, summary, exit_code>>
  /\ UNCHANGED <<fs, file_list, runs, results, choice, confirm, search_title,
                 start_fs, raw_chapters, mp3_files, original_files,
                 total_duration, book_metadata, chapters, combined_file,
                 combine_status, next_entry, successful_splits, commands,
                 entry_outcomes, splitting_successful, cleanup_successful,
                 cleanup_failures>>

RECURSIVE SumLen(_, _)
SumLen(files, names) ==
  IF names = <<>> THEN 0
  ELSE files[names[1]].len + SumLen(files, Tail(names))

\* calculate_total_duration: the sum of the files' lengths.
calculate_total_duration(files, names) == SumLen(files, names)

\* The total duration; a file whose duration cannot be read raises, and
\* process_folder's handler returns False.
CalculateTotalDuration ==
  /\ pc = "duration"
  /\ \E readable \in BOOLEAN :
       IF readable
       THEN /\ total_duration' = calculate_total_duration(fs, mp3_files)
            /\ pc' = "search"
            /\ UNCHANGED <<result, summary, exit_code>>
       ELSE /\ ReturnFalse("error")
            /\ UNCHANGED total_duration
  /\ UNCHANGED <<fs, file_list, runs, results, choice, confirm, search_title,
                 start_fs, raw_chapters, mp3_files, metadata, original_files,
                 book_metadata, chapters, combined_file, combine_status,
                 next_entry, successful_splits, commands, entry_outcomes,
                 splitting_successful, cleanup_successful,
                 cleanup_failures>>

(* --------------------------- the book search -------------------------- *)

\* What a /search request may answer: an HTTP error, or a list of books.
SearchAnswers ==
  {[status |-> "error", found |-> <<>>]}
  \cup {[status |-> "ok", found |-> found] : found \in SearchResults}

\* What the user may type at "Select a book".
ChoiceInputs == {<<"0">>, <<"1">>, <<"2">>, <<"3">>, <<"x">>, <<>>}

\* What the user may type at a (y/n) question.
AnswerInputs == {"y", "Y", "n", "q"}

\* What the user may type at "Enter book title".
TitleInputs == {<<>>, <<" ">>, <<" ", "B", "o", "o", "k">>}

Digits == {"0", "1", "2", "3", "4", "5", "6", "7", "8", "9"}

\* int(typed) raises ValueError.
IntRaises(typed) ==
  typed = <<>> \/ \E k \in 1..Len(typed) : typed[k] \notin Digits

\* int(typed) for a string of digits.
RECURSIVE IntOf(_)
IntOf(typed) ==
  IF typed = <<>> THEN 0
  ELSE 10 * IntOf(SubSeq(typed, 1, Len(typed) - 1))
       + (CodePoint(typed[Len(typed)]) - 48)

\* display_search_results: the number of rows shown; a book whose first
\* author cannot be read raises and is skipped.
display_search_results(found) ==
  Cardinality({k \in 1..Len(found) : ~FirstAuthorRaises(found[k])})

\* manual_search is entered: the locals of get_user_choice are gone.
EnterManualSearch ==
  /\ pc' = "manual_title"
  /\ results' = <<>>
  /\ choice' = 0

\* get_user_choice(found) up to its first prompt: without results, or with
\* none displayed, it returns manual_search().
EnterUserChoice(found) ==
  IF found = <<>> \/ display_search_results(found) = 0
  THEN EnterManualSearch
  ELSE /\ pc' = "select"
       /\ results' = found
       /\ choice' = 0

\* fetch_book_metadata: the request built from the file's metadata; its
\* results go to get_user_choice, no result or an error to manual_search.
FetchBookMetadata ==
  /\ pc = "search"
  /\ \E answer \in SearchAnswers :
       IF answer.status = "ok" /\ answer.found # <<>>
       THEN EnterUserChoice(answer.found)
       ELSE EnterManualSearch
  /\ UNCHANGED <<fs, file_list, runs,
                 start_fs, raw_chapters, mp3_files, metadata, original_files,
                 total_duration, book_metadata, confirm, search_title,
                 chapters, combined_file, combine_status,
                 next_entry, successful_splits, commands, entry_outcomes,
                 splitting_successful, cleanup_successful,
                 cleanup_failures, summary, result, exit_code>>

\* get_user_choice, "Select a book": 0 goes to manual_search, no number
\* (ValueError) or a number out of range prompts again, a number in range
\* selects that book; a selected book whose first author cannot be read
\* raises, which goes to manual_search.
SelectBook ==
  /\ pc = "select"
  /\ \E typed \in ChoiceInputs :
       IF typed = <<"0">> THEN EnterManualSearch
       ELSE IF IntRaises(typed) THEN UNCHANGED <<pc, results, choice>>
       ELSE LET idx == IntOf(typed) - 1
            IN  IF 0 <= idx /\ idx < Len(results)
                THEN IF FirstAuthorRaises(results[idx + 1])
                     THEN EnterManualSearch
                     ELSE /\ choice' = idx + 1
                          /\ pc' = "confirm"
                          /\ UNCHANGED results
                ELSE UNCHANGED <<pc, results, choice>>
  /\ UNCHANGED <<fs, file_list, runs,
                 start_fs, raw_chapters, mp3_files, metadata, original_files,
                 total_duration, book_metadata, confirm, search_title,
                 chapters, combined_file, combine_status,
                 next_entry, successful_splits, commands, entry_outcomes,
                 splitting_successful, cleanup_successful,
                 cleanup_failures, summary, result, exit_code>>

\* A get_user_choice that returns the selected book whatever the answer.
ConfirmedAlways(answer) == TRUE

\* if confirm == 'y'
Confirmed(answer) == answer = "y"

\* get_user_choice, "Is this correct?": y returns the selected book to
\* process_folder (the locals of the search are gone), n asks whether to
\* select another book, any other answer prompts for a number again.
ConfirmBook ==
  /\ pc = "confirm"
  /\ \E typed \in AnswerInputs :
       LET answer == LowerChar(typed)
       IN  /\ confirm' = answer
           /\ IF Confirmed(answer)
              THEN /\ book_metadata' = results[choice]
                   /\ pc' = "chapters"
                   /\ results' = <<>>
                   /\ choice' = 0
                   /\ search_title' = <<>>
              ELSE /\ pc' = IF answer = "n" THEN "retry_select" ELSE "select"
                   /\ UNCHANGED <<book_metadata, results, choice,
                                  search_title>>
  /\ UNCHANGED <<fs, file_list, runs,
                 start_fs, raw_chapters, mp3_files, metadata, original_files,
                 total_duration, chapters, combined_file, combine_status,
                 next_entry, successful_splits, commands, entry_outcomes,
                 splitting_successful, cleanup_successful,
                 cleanup_failures, summary, result, exit_code>>

\* get_user_choice, "Would you like to select another book?": y prompts for
\* a number again, any other answer goes to manual_search.
RetrySelect ==
  /\ pc = "retry_select"
  /\ \E typed \in AnswerInputs :
       IF LowerChar(typed) = "y"
       THEN /\ pc' = "select"
            /\ UNCHANGED <<results, choice>>
       ELSE EnterManualSearch
  /\ UNCHANGED <<fs, file_list, runs,
                 start_fs, raw_chapters, mp3_files, metadata, original_files,
                 total_duration, book_metadata, confirm, search_title,
                 chapters, combined_file, combine_status,
                 next_entry, successful_splits, commands, entry_outcomes,
                 splitting_successful, cleanup_successful,
                 cleanup_failures, summary, result, exit_code>>

\* manual_search, "Enter book title": an empty title returns None, and
\* process_folder returns False; any other title is searched for, results
\* go to get_user_choice, no result or an error to the question whether to
\* try again.
ManualTitle ==
  /\ pc = "manual_title"
  /\ \E typed \in TitleInputs :
       /\ search_title' = Strip(typed)
       /\ IF Strip(typed) = <<>>
          THEN /\ ReturnFalse("aborted")
               /\ UNCHANGED <<results, choice>>
          ELSE /\ \E answer \in SearchAnswers :
                    IF answer.status = "ok" /\ answer.found # <<>>
                    THEN EnterUserChoice(answer.found)
                    ELSE /\ pc' = "manual_retry"
                         /\ UNCHANGED <<results, choice>>
               /\ UNCHANGED <<result, summary, exit_code>>
  /\ UNCHANGED <<fs, file_list, runs,
                 start_fs, raw_chapters, mp3_files, metadata, original_files,
                 total_duration, book_metadata, confirm,
                 chapters, combined_file, combine_status,
                 next_entry, successful_splits, commands, entry_outcomes,
                 splitting_successful, cleanup_successful,
                 cleanup_failures>>

\* manual_search, "Would you like to try another search?" (or "to try
\* again?" after an error): y prompts for a title again, any other answer
\* returns None, and process_folder returns False.
ManualRetry ==
  /\ pc = "manual_retry"
  /\ \E typed \in AnswerInputs :
       IF LowerChar(typed) = "y"
       THEN /\ pc' = "manual_title"
            /\ UNCHANGED <<result, summary, exit_code>>
       ELSE ReturnFalse("aborted")
  /\ UNCHANGED <<fs, file_list, runs,
                 start_fs, raw_chapters, mp3_files, metadata, original_files,
                 total_duration, book_metadata, results, choice, confirm,
                 search_title, chapters, combined_file, combine_status,
                 next_entry, successful_splits, commands, entry_outcomes,
                 splitting_successful, cleanup_successful,
                 cleanup_failures>>

(* ---------------------------- fetch_chapters --------------------------- *)

\* int(a / b) for b > 0: truncation toward zero.
IntTrunc(a, b) == IF a >= 0 THEN a \div b ELSE -((-a) \div b)

\* fetch_chapters' processed_chapter.
processed_chapter(chapter) ==
  [title    |-> chapter.title,
   start    |-> chapter.startOffsetSec,
   duration |-> IntTrunc(chapter.lengthMs, 1000)]

\* What the chapters request may answer.
ChapterResponses ==
  {[status |-> "http_error", chapters |-> <<>>],
   [status |-> "malformed", chapters |-> <<>>]}
  \cup {[status |-> "ok", chapters |-> raw] : raw \in RawChapterLists}

\* fetch_chapters: None on an HTTP error or a malformed answer.
fetch_chapters(response) ==
  IF response.status # "ok" THEN NoChapters
  ELSE [none |-> FALSE,
        list |-> [k \in 1..Len(response.chapters) |->
                    processed_chapter(response.chapters[k])]]

\* The chapter list; none, or an empty one, ends the run.
FetchChapters ==
  /\ pc = "chapters"
  /\ \E response \in ChapterResponses :
       LET fetched == fetch_chapters(response)
       IN  IF fetched.none \/ fetched.list = <<>>
           THEN /\ ReturnFalse("aborted")
                /\ chapters' = <<>>
                /\ raw_chapters' = <<>>
           ELSE /\ chapters' = fetched.list
                /\ raw_chapters' = response.chapters
                /\ pc' = "combine"
                /\ UNCHANGED <<result, summary, exit_code>>
  /\ UNCHANGED <<fs, file_list, runs, results, choice, confirm, search_title,
                 start_fs, mp3_files, metadata, original_files,
                 total_duration, book_metadata, combined_file,
                 combine_status, next_entry, successful_splits, commands,
                 entry_outcomes, splitting_successful, cleanup_successful,
                 cleanup_failures>>

(* -------------------------- combine_mp3_files -------------------------- *)

\* One input file: there is nothing to combine.
SingleFile ==
  /\ pc = "combine"
  /\ Len(mp3_files) = 1
  /\ combined_file' = mp3_files[1]
  /\ pc' = "split"
  /\ UNCHANGED <<fs, file_list, runs, results, choice, confirm, search_title,
                 start_fs, raw_chapters, mp3_files, metadata, original_files,
                 total_duration, book_metadata, chapters, combine_status,
                 next_entry, successful_splits, commands, entry_outcomes,
                 splitting_successful, cleanup_successful,
                 cleanup_failures, summary, result,
                 exit_code>>

\* Several input files: combine_mp3_files writes the manifest files.txt;
\* or it cannot create it, or creates it and fails while writing or
\* reading it back, which raises.
CombineWriteList ==
  /\ pc = "combine"
  /\ Len(mp3_files) > 1
  /\ \/ /\ file_list' = TRUE
        /\ pc' = "combine_ffmpeg"
        /\ UNCHANGED combine_status
     \/ /\ file_list' = TRUE
        /\ combine_status' = "raise"
        /\ pc' = "combine_finally"
     \/ /\ UNCHANGED file_list
        /\ combine_status' = "raise"
        /\ pc' = "combine_finally"
  /\ UNCHANGED <<fs, runs, results, choice, confirm, search_title,
                 start_fs, raw_chapters, mp3_files, metadata, original_files,
                 total_duration, book_metadata, chapters, combined_file,
                 next_entry, successful_splits, commands, entry_outcomes,
                 splitting_successful, cleanup_successful,
                 cleanup_failures, summary, result,
                 exit_code>>

\* What the concatenation leaves at the output path when it succeeds.
CombinedContent(files, names) ==
  [kind |-> "combined", len |-> SumLen(files, names), tags |-> NoTags]

\* ffmpeg -f concat ... -y <folder>/combined_temp.mp3: it succeeds, or exits
\* non-zero having written nothing or part of the output, or cannot be run.
CombineFfmpeg ==
  /\ pc = "combine_ffmpeg"
  /\ \/ /\ fs' = WriteFile(fs, combined_file_name,
                           CombinedContent(fs, mp3_files))
        /\ combine_status' = "ok"
     \/ /\ fs' = WriteFile(fs, combined_file_name, PartialContent)
        /\ combine_status' = "raise"
     \/ /\ UNCHANGED fs
        /\ combine_status' = "raise"
  /\ pc' = "combine_finally"
  /\ UNCHANGED <<file_list, runs, results, choice, confirm, search_title,
                 start_fs, raw_chapters, mp3_files, metadata, original_files,
                 total_duration, book_metadata, chapters, combined_file,
                 next_entry, successful_splits, commands, entry_outcomes,
                 splitting_successful, cleanup_successful,
                 cleanup_failures, summary, result,
                 exit_code>>

\* A finally clause that is no finally clause: files.txt is removed only
\* when the concatenation succeeded.
RemoveFileListOnSuccess(exists, status) ==
  IF status = "ok" THEN FALSE ELSE exists

\* The finally clause: files.txt is removed if it exists, whatever happened.
RemoveFileList(exists, status) == IF exists THEN FALSE ELSE exists

\* combine_mp3_files' finally clause, then its return to process_folder or
\* the exception reaching process_folder's handler.
CombineFinally ==
  /\ pc = "combine_finally"
  /\ file_list' = RemoveFileList(file_list, combine_status)
  /\ IF combine_status = "ok"
     THEN /\ combined_file' = combined_file_name
          /\ pc' = "split"
          /\ UNCHANGED <<result, summary, exit_code>>
     ELSE /\ ReturnFalse("error")
          /\ UNCHANGED combined_file
  /\ UNCHANGED <<fs, runs, results, choice, confirm, search_title,
                 start_fs, raw_chapters, mp3_files, metadata, original_files,
                 total_duration, book_metadata, chapters, combine_status,
                 next_entry, successful_splits, commands, entry_outcomes,
                 splitting_successful, cleanup_successful,
                 cleanup_failures>>

(* -------------------------- split_by_chapters -------------------------- *)

\* An output name built from the title as it came.
OutputNameUnsanitized(i, title) ==
  Pad2(i) \o <<"_">> \o title \o Mp3Suffix

\* f"{i:02d}_{safe_title}.mp3"
OutputName(i, title) ==
  Pad2(i) \o <<"_">> \o sanitize_filename(title) \o Mp3Suffix

\* The ffmpeg extraction command of entry i.
ExtractCommand(input, i, chapter) ==
  [index    |-> i,
   input    |-> input,
   start    |-> chapter.start,
   duration |-> chapter.duration,
   output   |-> OutputName(i, chapter.title)]

Max(a, b) == IF a >= b THEN a ELSE b

Min(a, b) == IF a <= b THEN a ELSE b

\* What ffmpeg -ss start -t duration -c copy writes from `source`.
ExtractedContent(source, chapter) ==
  [kind |-> "chapter",
   len  |-> Min(Max(chapter.duration, 0), Max(source.len - chapter.start, 0)),
   tags |-> NoTags]

\* tag_file: the tags written; any exception (the file cannot be read or
\* saved, or the book's author list is empty) is caught and nothing is
\* written.
tag_file(content, chapter, track_num, total_tracks, book, io_ok) ==
  IF ~io_ok \/ FirstAuthorRaises(book)
  THEN content
  ELSE [content EXCEPT !.tags =
          [title  |-> chapter.title,
           track  |-> Decimal(track_num) \o <<"/">> \o Decimal(total_tracks),
           artist |-> FirstAuthorName(book, FallbackAuthor),
           album  |-> book.title]]

\* Whether tag_file wrote the tags.
Tagged(book, io_ok) == io_ok /\ ~FirstAuthorRaises(book)

\* What became of the entry whose extraction succeeded: tagged, or the file
\* could not be read or saved ("tag-failed"), or the file was read and the
\* author lookup raised before anything was saved ("tag-raised").
TagOutcome(book, io_ok) ==
  IF ~io_ok THEN "tag-failed"
  ELSE IF FirstAuthorRaises(book) THEN "tag-raised"
  ELSE "success"

\* What split_by_chapters adds to successful_splits after tag_file returned.
CountAfterTagging(count, tagged) == count + 1

\* One pass of the loop whose extraction succeeds: the output is written
\* over whatever is at its path (-y), tag_file is called, and the entry
\* is counted.  ffmpeg refuses an output that is its input.
SplitChapterOk ==
  /\ pc = "split"
  /\ next_entry <= Len(chapters)
  /\ LET chapter == chapters[next_entry]
         cmd     == ExtractCommand(combined_file, next_entry, chapter)
     IN  /\ cmd.output # combined_file
         /\ Exists(fs, combined_file)
         /\ \E io_ok \in BOOLEAN :
              /\ fs' = WriteFile(fs, cmd.output,
                         tag_file(ExtractedContent(fs[combined_file], chapter),
                                  chapter, next_entry, Len(chapters),
                                  book_metadata, io_ok))
              /\ entry_outcomes' =
                   Append(entry_outcomes, TagOutcome(book_metadata, io_ok))
              /\ successful_splits' =
                   CountAfterTagging(successful_splits,
                                     Tagged(book_metadata, io_ok))
         /\ commands' = Append(commands, cmd)
  /\ next_entry' = next_entry + 1
  /\ UNCHANGED <<file_list, pc, runs, results, choice, confirm, search_title,
                 start_fs, raw_chapters, mp3_files, metadata, original_files,
                 total_duration, book_metadata, chapters, combined_file,
                 combine_status, splitting_successful, cleanup_successful,
                 cleanup_failures,
                 summary, result, exit_code>>

\* A sweep that gives up at the first failed extraction.
AbortAfterCutFailed(i, n) == n + 1

\* Where the loop goes after a failed extraction: `continue`.
AfterCutFailed(i, n) == i + 1

\* One pass of the loop whose extraction fails: ffmpeg exits non-zero,
\* having written nothing or part of the output, or cannot be run (the
\* exception is caught); the loop continues with the next entry.
SplitChapterCutFailed ==
  /\ pc = "split"
  /\ next_entry <= Len(chapters)
  /\ LET chapter == chapters[next_entry]
         cmd     == ExtractCommand(combined_file, next_entry, chapter)
     IN  /\ \/ UNCHANGED fs
            \/ /\ cmd.output # combined_file
               /\ fs' = WriteFile(fs, cmd.output, PartialContent)
         /\ commands' = Append(commands, cmd)
  /\ entry_outcomes' = Append(entry_outcomes, "cut-failed")
  /\ next_entry' = AfterCutFailed(next_entry, Len(chapters))
  /\ UNCHANGED <<file_list, pc, runs, results, choice, confirm, search_title,
                 start_fs, raw_chapters, mp3_files, metadata, original_files,
                 total_duration, book_metadata, chapters, combined_file,
                 combine_status, successful_splits, splitting_successful,
                 cleanup_successful,
                 cleanup_failures, summary, result, exit_code>>

\* return successful_splits == len(chapters)
SplitResult(count, n) == count = n

\* The loop is over: split_by_chapters returns.
SplitReturn ==
  /\ pc = "split"
  /\ next_entry > Len(chapters)
  /\ splitting_successful' = SplitResult(successful_splits, Len(chapters))
  /\ pc' = "cleanup"
  /\ UNCHANGED <<fs, file_list, runs, results, choice, confirm, search_title,
                 start_fs, raw_chapters, mp3_files, metadata, original_files,
                 total_duration, book_metadata, chapters, combined_file,
                 combine_status, next_entry, successful_splits, commands,
                 entry_outcomes, cleanup_successful,
                 cleanup_failures, summary, result,
                 exit_code>>

(* ------------------------- cleanup and the end ------------------------- *)

\* A cleanup that does not look at the result of the split.
CleanupAlways(split_ok) == TRUE

\* `if splitting_successful:` guards the whole cleanup.
CleanupAllowed(split_ok) == split_ok

\* The originals are removed, each removal caught if it fails; nothing is
\* removed unless the split succeeded.
CleanupOriginals ==
  /\ pc = "cleanup"
  /\ IF CleanupAllowed(splitting_successful)
     THEN /\ \E failed \in
                 {F \in SUBSET {f \in Range(original_files) : Exists(fs, f)} :
                    Cardinality(F) <= MaxFailedRemovals} :
               /\ fs' = RemoveFiles(fs, {f \in Range(original_files) :
                                           Exists(fs, f) /\ f \notin failed})
               /\ cleanup_successful' = (failed = {})
               /\ cleanup_failures' =
                    IF failed = {} THEN {} ELSE {"originals"}
          /\ pc' = "cleanup_combined"
     ELSE /\ UNCHANGED <<fs, cleanup_successful, cleanup_failures>>
          /\ pc' = "report"
  /\ UNCHANGED <<file_list, runs, results, choice, confirm, search_title,
                 start_fs, raw_chapters, mp3_files, metadata, original_files,
                 total_duration, book_metadata, chapters, combined_file,
                 combine_status, next_entry, successful_splits, commands,
                 entry_outcomes, splitting_successful, summary, result,
                 exit_code>>

\* The combined file is removed if it was created and still exists; a
\* failed removal is caught.
CleanupCombined ==
  /\ pc = "cleanup_combined"
  /\ IF Len(mp3_files) > 1 /\ Exists(fs, combined_file_name)
     THEN \/ /\ fs' = RemoveFiles(fs, {combined_file_name})
             /\ UNCHANGED <<cleanup_successful, cleanup_failures>>
          \/ /\ UNCHANGED fs
             /\ cleanup_successful' = FALSE
             /\ cleanup_failures' = cleanup_failures \cup {"combined"}
     ELSE UNCHANGED <<fs, cleanup_successful, cleanup_failures>>
  /\ pc' = "report"
  /\ UNCHANGED <<file_list, runs, results, choice, confirm, search_title,
                 start_fs, raw_chapters, mp3_files, metadata, original_files,
                 total_duration, book_metadata, chapters, combined_file,
                 combine_status, next_entry, successful_splits, commands,
                 entry_outcomes, splitting_successful, summary, result,
                 exit_code>>

\* A summary that forgets the cleanup.
SummaryWithoutCleanup(split_ok, cleanup_ok) ==
  IF split_ok THEN "success" ELSE "failed"

\* The final summary printed.
Summary(split_ok, cleanup_ok) ==
  IF split_ok /\ cleanup_ok THEN "success"
  ELSE IF split_ok THEN "partial"
  ELSE "failed"

\* exit(0 if success else 1)
ExitCode(success) == IF success THEN 0 ELSE 1

\* The summary, `return splitting_successful`, and main's exit.
Report ==
  /\ pc = "report"
  /\ summary' = Summary(splitting_successful, cleanup_successful)
  /\ result' = splitting_successful
  /\ exit_code' = ExitCode(splitting_successful)
  /\ pc' = "done"
  /\ UNCHANGED <<fs, file_list, runs, results, choice, confirm, search_title,
                 start_fs, raw_chapters, mp3_files, metadata, original_files,
                 total_duration, book_metadata, chapters, combined_file,
                 combine_status, next_entry, successful_splits, commands,
                 entry_outcomes, splitting_successful, cleanup_successful,
                 cleanup_failures>>

(* --------------------------- specifications ---------------------------- *)

Next ==
  \/ ProcessFolderStart
  \/ GetMetadata
  \/ CalculateTotalDuration
  \/ FetchBookMetadata
  \/ SelectBook
  \/ ConfirmBook
  \/ RetrySelect
  \/ ManualTitle
  \/ ManualRetry
  \/ FetchChapters
  \/ SingleFile
  \/ CombineWriteList
  \/ CombineFfmpeg
  \/ CombineFinally
  \/ SplitChapterOk
  \/ SplitChapterCutFailed
  \/ SplitReturn
  \/ CleanupOriginals
  \/ CleanupCombined
  \/ Report

Spec == Init /\ [][Next]_vars

\* A step of the sweep of split_by_chapters.
SweepStep == SplitChapterOk \/ SplitChapterCutFailed \/ SplitReturn

\* The code is synchronous: once the sweep has begun, each call it makes
\* returns and the loop takes its next step.
FairSpec == Spec /\ WF_vars(SweepStep)

(* ------------------- split_by_chapters called directly ----------------- *)

\* n times the character c.
Repeat(c, n) == [k \in 1..n |-> c]

\* The titles of the chapters handed to split_by_chapters: with invalid
\* characters and inner white space, with nothing but invalid characters
\* and white space, and longer than the cap, with and without white space
\* where the cap falls.
TitlePool ==
  { <<"C","h","a","p","t","e","r",":"," ","O","n","e","/","T","w","o","?">>,
    <<" ","<","\"","|","*","\\",">"," ">>,
    Repeat("a", MaxTitleLen - 1) \o <<" ","b">>,
    Repeat("a", MaxTitleLen) \o <<"b","c">>,
    <<" ","?"," ">> \o Repeat("a", MaxTitleLen - 1) \o <<"\t","b",":">> }

\* The chapter lists handed to split_by_chapters.
ChapterLists ==
  SeqsUpTo({[title |-> t, start |-> 0, duration |-> 300] : t \in TitlePool},
           MaxChapters)

\* split_by_chapters(input_file, chapters, book_metadata) is called on an
\* existing file, outside process_folder.
SplitInit ==
  /\ fs = [f \in {<<"a",".","m","p","3">>} |-> UserContent]
  /\ start_fs = fs
  /\ file_list = FALSE
  /\ runs = 0
  /\ pc = "split"
  /\ combined_file = <<"a",".","m","p","3">>
  /\ chapters \in ChapterLists
  /\ book_metadata \in BookDicts
  /\ mp3_files = <<>>
  /\ metadata = NoMetadata
  /\ original_files = <<>>
  /\ total_duration = 0
  /\ results = <<>>
  /\ choice = 0
  /\ confirm = ""
  /\ search_title = <<>>
  /\ raw_chapters = <<>>
  /\ combine_status = "none"
  /\ next_entry = 1
  /\ successful_splits = 0
  /\ commands = <<>>
  /\ entry_outcomes = <<>>
  /\ splitting_successful = FALSE
  /\ cleanup_successful = TRUE
  /\ cleanup_failures = {}
  /\ summary = "none"
  /\ result = FALSE
  /\ exit_code = -1

\* The sweep, and its return to the caller.
SplitNext ==
  \/ SplitChapterOk
  \/ SplitChapterCutFailed
  \/ SplitReturn

SplitSpec == SplitInit /\ [][SplitNext]_vars

(* ------------------------------- claims -------------------------------- *)

\* The sweep of split_by_chapters is over in this run.
SweepOver ==
  \/ pc \in {"cleanup", "cleanup_combined", "report"}
  \/ pc = "done" /\ summary \in {"success", "partial", "failed"}

\* The run ended before the sweep began.
EndedBeforeSweep == pc = "done" /\ summary \in {"aborted", "error"}

\* Some original input file of this run is no longer on disk.
SomeOriginalMissing == \E f \in Range(original_files) : ~Exists(fs, f)

C2_AllOutputsExistAfterSuccess ==
  (pc = "done" /\ result = TRUE /\ Range(entry_outcomes) = {"success"})
    => \A k \in 1..Len(commands) : Exists(fs, commands[k].output)

\* Entry k was attempted with index k, for every entry attempted so far.
AttemptedInOrder ==
  \A k \in 1..Len(commands) : commands[k].index = k

\* C3: an extraction is attempted for every entry 1..N in input order,
\* whatever extractions fail, and the sweep, once begun, ends (returning
\* its boolean result).
C3_BestEffortSweep ==
  /\ [](AttemptedInOrder)
  /\ [](pc = "split" => Len(commands) = next_entry - 1)
  /\ [](SweepOver => (/\ Len(commands) = Len(chapters)
                      /\ Len(entry_outcomes) = Len(chapters)
                      /\ splitting_successful \in BOOLEAN))
  /\ (pc = "split") ~> (pc = "cleanup")

\* The sweep is over; its first extraction failed and the second entry was
\* attempted all the same.
C3_Witness ==
  /\ SweepOver
  /\ Len(chapters) = 2
  /\ entry_outcomes[1] = "cut-failed"
  /\ commands[2].index = 2

\* C4 (the claim as stated): if tagging fails for any entry, the overall
\* result of split_by_chapters is False, and no original is deleted.
C4_TagFailureFailsTheSplit ==
  (SweepOver /\ "tag-failed" \in Range(entry_outcomes))
    => (~splitting_successful /\ ~SomeOriginalMissing)

\* C5 (the claim as stated): a run that fails before the sweep begins
\* returns False, has run no extraction, and has neither deleted nor
\* overwritten any of its original input files.
C5_EarlyFailureTouchesNothing ==
  EndedBeforeSweep =>
    /\ result = FALSE
    /\ commands = <<>>
    /\ \A f \in Range(original_files) : Exists(fs, f) /\ fs[f] = start_fs[f]

\* The outcome of the run that has returned: the summary printed, and
\* "failed" for a run that ended on an error message.
Outcome ==
  IF summary \in {"success", "partial"} THEN summary ELSE "failed"

\* Every entry of the plan was cut (the extraction of each succeeded).
AllCut ==
  /\ Len(chapters) > 0
  /\ Len(entry_outcomes) = Len(chapters)
  /\ "cut-failed" \notin Range(entry_outcomes)

\* No original input file is left on disk.
OriginalsRemoved == \A f \in Range(original_files) : ~Exists(fs, f)

\* The cleanup of the original input files succeeded: no removal of an
\* original raised.
OriginalsCleanupOk == "originals" \notin cleanup_failures

\* Every cleanup operation succeeded: no removal raised, of an original or
\* of the intermediate combined file.
AllCleanupOk == cleanup_failures = {}

\* C6 (the claim as stated): success iff every entry was cut and the cleanup
\* of the originals succeeded, partial iff every entry was cut and the
\* cleanup of the originals failed, failed otherwise; the value returned and
\* the exit code follow the cut alone.
C6_OutcomeByCleanupOfOriginals ==
  pc = "done" =>
    /\ Outcome = "success" <=> (AllCut /\ OriginalsCleanupOk)
    /\ Outcome = "partial" <=> (AllCut /\ ~OriginalsCleanupOk)
    /\ Outcome = "failed" <=> ~AllCut
    /\ result = AllCut
    /\ exit_code = IF AllCut THEN 0 ELSE 1

\* C6 (amended): success iff every entry was cut and every cleanup removal
\* succeeded (of the originals and, after a concatenation, of the
\* intermediate combined file), partial iff every entry was cut and some
\* removal failed,
\* failed otherwise; the value returned and the exit code follow the cut
\* alone, so a partial outcome exits 0.
C6_OutcomeByAllCleanup ==
  pc = "done" =>
    /\ Outcome = "success" <=> (AllCut /\ AllCleanupOk)
    /\ Outcome = "partial" <=> (AllCut /\ ~AllCleanupOk)
    /\ Outcome = "failed" <=> ~AllCut
    /\ result = AllCut
    /\ exit_code = IF AllCut THEN 0 ELSE 1

\* A run has ended partial, with exit code 0: every original was removed,
\* and the combined file could not be.
C6_Witness ==
  /\ pc = "done"
  /\ summary = "partial"
  /\ exit_code = 0
  /\ OriginalsRemoved
  /\ Exists(fs, combined_file_name)

\* C7 (the claim as stated): after a run in which the concatenation was
\* started, combined_temp.mp3 does not exist, whatever the outcome.
C7_NoCombinedFileAfterRun ==
  (pc = "done" /\ Len(mp3_files) > 1 /\ combine_status # "none")
    => ~Exists(fs, combined_file_name)

\* C8: outside combine_mp3_files no manifest exists, so none is left when
\* the call returns or raises; and a run on exactly one input file creates
\* neither a manifest nor an intermediate file.
C8_NoManifestLeftBehind ==
  /\ pc \notin {"combine_ffmpeg", "combine_finally"} => ~file_list
  /\ Len(mp3_files) = 1 =>
       /\ ~file_list
       /\ combine_status = "none"
       /\ Exists(fs, combined_file_name) =>
            /\ Exists(start_fs, combined_file_name)
            /\ fs[combined_file_name] = start_fs[combined_file_name]

\* combine_mp3_files has raised after ffmpeg ran on the manifest and failed,
\* and the run has ended.
C8_Witness ==
  /\ pc = "done"
  /\ Len(mp3_files) > 1
  /\ combine_status = "raise"
  /\ ~Exists(start_fs, combined_file_name)
  /\ Exists(fs, combined_file_name)
  /\ ~file_list

\* C9 (the claim as stated): when the concatenation fails, no partial
\* intermediate file is left at the path the later steps read.
C9_NoPartialIntermediate ==
  (pc = "done" /\ combine_status = "raise")
    => ~(/\ Exists(fs, combined_file_name)
         /\ fs[combined_file_name].kind = "partial")

RECURSIVE SumLengthMs(_)
SumLengthMs(raw) ==
  IF raw = <<>> THEN 0 ELSE raw[1].lengthMs + SumLengthMs(Tail(raw))

\* The file name fragment expected for each title the service may send.
ExpectedFragment(title) ==
  CASE title = <<"I","n","t","r","o">> -> <<"I","n","t","r","o">>
    [] title = <<" ","M","i","d","?">> -> <<"M","i","d">>
    [] title = <<"E","n","d">>         -> <<"E","n","d">>

\* The output expected for entry k < 100: two digits, an underscore, the
\* fragment, ".mp3".
ExpectedOutput(k, title) ==
  LET digits == <<"0", "1", "2", "3", "4", "5", "6", "7", "8", "9">>
  IN  <<digits[(k \div 10) + 1], digits[(k % 10) + 1], "_">>
        \o ExpectedFragment(title) \o <<".", "m", "p", "3">>

\* C10: for a chapter list whose durations sum to at most the total
\* duration, the sweep cuts exactly one entry per chapter received, entry k
\* being the k-th chapter received (no re-sorting), with that chapter's
\* start and its duration in whole seconds, into the file named by the
\* 2-digit index, an underscore, the sanitized title and ".mp3".
C10_OneCutPerChapterInOrder ==
  (raw_chapters # <<>> /\ SumLengthMs(raw_chapters) <= total_duration * 1000)
    => /\ Len(commands) <= Len(raw_chapters)
       /\ SweepOver => Len(commands) = Len(raw_chapters)
       /\ \A k \in 1..Len(commands) :
            /\ commands[k].index = k
            /\ commands[k].input = combined_file
            /\ commands[k].start = raw_chapters[k].startOffsetSec
            /\ commands[k].duration * 1000 <= raw_chapters[k].lengthMs
            /\ raw_chapters[k].lengthMs < (commands[k].duration + 1) * 1000
            /\ commands[k].output = ExpectedOutput(k, raw_chapters[k].title)

\* A sweep is over on two chapters received out of start order (End, then
\* Intro), whose durations fit the total duration.
C10_Witness ==
  /\ SweepOver
  /\ Len(raw_chapters) = 2
  /\ SumLengthMs(raw_chapters) <= total_duration * 1000
  /\ raw_chapters[1].startOffsetSec > raw_chapters[2].startOffsetSec
  /\ commands[1].output = <<"0","1","_","E","n","d",".","m","p","3">>
  /\ commands[2].duration = 300

\* The duration the boundary rule gives entry k of the chapters received:
\* up to the next start, and for the last entry up to the total duration.
BoundaryDuration(raw, k, total) ==
  IF k < Len(raw)
  THEN raw[k + 1].startOffsetSec - raw[k].startOffsetSec
  ELSE total - raw[k].startOffsetSec

RECURSIVE SumDurations(_)
SumDurations(cmds) ==
  IF cmds = <<>> THEN 0 ELSE cmds[1].duration + SumDurations(Tail(cmds))

\* Every chapter received comes with a start offset only, and the starts
\* increase up to the total duration.
OnlyStartsGiven ==
  /\ raw_chapters # <<>>
  /\ \A k \in 1..Len(raw_chapters) :
       /\ raw_chapters[k].lengthMs = 0
       /\ BoundaryDuration(raw_chapters, k, total_duration) > 0

\* C11 (the claim as stated): an entry whose chapter has no length (or a
\* zero one) is cut with the duration of the boundary rule, where that rule
\* gives a positive duration; an explicit length is used as it is, in whole
\* seconds; and when only starts are given the durations sum to the total
\* duration less the first start.
C11_DurationFromBoundaries ==
  /\ \A k \in 1..Len(commands) :
       IF raw_chapters[k].lengthMs = 0
       THEN BoundaryDuration(raw_chapters, k, total_duration) > 0
              => commands[k].duration =
                   BoundaryDuration(raw_chapters, k, total_duration)
       ELSE /\ commands[k].duration * 1000 <= raw_chapters[k].lengthMs
            /\ raw_chapters[k].lengthMs < (commands[k].duration + 1) * 1000
  /\ (SweepOver /\ OnlyStartsGiven)
       => SumDurations(commands) =
            total_duration - raw_chapters[1].startOffsetSec

\* C12 (the claim as stated): no extraction is run for an entry whose
\* duration is negative or whose end lies more than the tolerance (taken
\* as one second) beyond the total duration.
C12_OutOfRangeEntryNotCut ==
  \A k \in 1..Len(commands) :
    /\ commands[k].duration >= 0
    /\ commands[k].start + commands[k].duration <= total_duration + 1

\* The sanitized title in an output name: what stands between the two-digit
\* index with its underscore and ".mp3".
Fragment(output) == SubSeq(output, 4, Len(output) - 4)

\* C13 (the claim as stated): the sanitized title of every extraction
\* command is left as it is by sanitize_filename.
C13_SanitizeIdempotent ==
  \A k \in 1..Len(commands) :
    sanitize_filename(Fragment(commands[k].output))
      = Fragment(commands[k].output)

\* s with the characters of `chars` left out.
RECURSIVE Without(_, _)
Without(s, chars) ==
  IF s = <<>> THEN <<>>
  ELSE IF Len(s) = 1 THEN (IF s[1] \in chars THEN <<>> ELSE s)
  ELSE LET half == Len(s) \div 2
       IN  Without(SubSeq(s, 1, half), chars)
             \o Without(SubSeq(s, half + 1, Len(s)), chars)

\* s from its first to its last character that is no white space.
Trimmed(s) ==
  LET solid == {k \in 1..Len(s) : s[k] \notin {" ", "\t", "\n", "\r"}}
  IN  IF solid = {} THEN <<>>
      ELSE SubSeq(s, CHOOSE k \in solid : \A j \in solid : k <= j,
                     CHOOSE k \in solid : \A j \in solid : k >= j)

\* The first n characters of s, or s if it has fewer.
Capped(s, n) == IF Len(s) > n THEN SubSeq(s, 1, n) ELSE s

ChapterOneTwo ==
  <<"C","h","a","p","t","e","r",":"," ","O","n","e","/","T","w","o","?">>

\* What the rule (the nine characters removed, nothing put in their place,
\* white space trimmed at both ends, then 200 characters at most) makes of
\* the title of entry k.
FragmentByRule(k) ==
  Capped(Trimmed(Without(chapters[k].title,
                         {"<", ">", ":", "\"", "/", "\\", "|", "?", "*"})),
         200)

\* C14 (the claim as stated): the sanitized title of every extraction
\* command follows the rule, and the title Chapter: One/Two? gives
\* ChapterOneTwo.
C14_FragmentWithoutInnerSpace ==
  \A k \in 1..Len(commands) :
    /\ Fragment(commands[k].output) = FragmentByRule(k)
    /\ chapters[k].title = ChapterOneTwo
         => Fragment(commands[k].output)
              = <<"C","h","a","p","t","e","r","O","n","e","T","w","o">>

\* C14 (amended): the sanitized title of every extraction command follows
\* the rule, and the title Chapter: One/Two? gives Chapter OneTwo, the
\* space inside the title being kept.
C14_FragmentByRule ==
  \A k \in 1..Len(commands) :
    /\ Fragment(commands[k].output) = FragmentByRule(k)
    /\ chapters[k].title = ChapterOneTwo
         => Fragment(commands[k].output)
              = <<"C","h","a","p","t","e","r"," ","O","n","e","T","w","o">>

\* Two extraction commands were built: for Chapter: One/Two? and for a
\* title longer than the cap.
C14_Witness ==
  /\ Len(commands) = 2
  /\ chapters[1].title = ChapterOneTwo
  /\ Len(chapters[2].title) > MaxTitleLen
  /\ Len(Fragment(commands[2].output)) = MaxTitleLen

\* Where process_folder is while fetch_book_metadata has not returned.
SearchStages ==
  {"search", "select", "confirm", "retry_select", "manual_title",
   "manual_retry"}

\* The step in which the search returns a book to process_folder.
BookReturned == book_metadata = NoBook /\ book_metadata' # NoBook

\* C15: the search returns a book only in the step that answers y (in
\* either case) to "Is this correct?", and the book is the one selected by
\* a number within the results; every other step of the search prompts
\* again or returns None, on which process_folder returns False having cut
\* nothing; an empty title at "Enter book title" returns None; and no
\* extraction is run before a book was returned.
C15_BookOnlyByConfirmation ==
  /\ [][BookReturned =>
          /\ pc = "confirm"
          /\ choice \in 1..Len(results)
          /\ book_metadata' = results[choice]
          /\ confirm' = "y"
          /\ pc' = "chapters"]_vars
  /\ [][(pc \in SearchStages /\ ~BookReturned) =>
          /\ book_metadata' = NoBook
          /\ commands' = <<>>
          /\ \/ pc' \in SearchStages
             \/ pc' = "done" /\ result' = FALSE /\ exit_code' = 1]_vars
  /\ [][(pc = "manual_title" /\ search_title' = <<>>) =>
          (pc' = "done" /\ result' = FALSE)]_vars
  /\ [](pc \in SearchStages => (book_metadata = NoBook /\ commands = <<>>))
  /\ [](book_metadata # NoBook => confirm = "y")

\* The search has returned a book to process_folder: the user selected it
\* by its number and answered y.
C15_Witness ==
  /\ pc = "chapters"
  /\ book_metadata # NoBook
  /\ book_metadata.asin = "B1"
  /\ confirm = "y"

\* C16 (the claim as stated): once get_metadata_from_file was called, the
\* run holds a search seed, the fixed fallback if the first file carries
\* no tags, so no run ends for want of metadata.
C16_MetadataNeverAborts ==
  (mp3_files # <<>> /\ pc # "metadata") =>
    /\ metadata # NoMetadata
    /\ start_fs[mp3_files[1]].tags = NoTags
         => metadata = [title  |-> <<"M","o","t","h","e","r">>,
                        author |-> FallbackAuthor,
                        region |-> "US"]

\* The artist expected for a book: the name of its first author, and the
\* fallback constant when there is none to read.
ExpectedArtist(book) ==
  IF book.has_authors /\ book.authors # <<>> /\ book.authors[1].has_name
  THEN book.authors[1].name
  ELSE <<"m",".","s","."," ","R","e","d","C","h","e","r","r","i","e","s">>

\* "k/n" for k and n below 10.
ExpectedTrack(k, n) ==
  LET digits == <<"0", "1", "2", "3", "4", "5", "6", "7", "8", "9">>
  IN  <<digits[k + 1], "/", digits[n + 1]>>

\* C17 (the claim as stated): the output of every entry that was cut, and
\* whose file tag_file could read and save, carries the title of its
\* chapter, the track k/N, the name of the first author or the fallback
\* constant, and the title of the book.
C17_EveryCutEntryTagged ==
  \A k \in 1..Len(commands) :
    entry_outcomes[k] \in {"success", "tag-raised"} =>
      /\ Exists(fs, commands[k].output)
      /\ fs[commands[k].output].tags =
           [title  |-> chapters[k].title,
            track  |-> ExpectedTrack(k, Len(chapters)),
            artist |-> ExpectedArtist(book_metadata),
            album  |-> book_metadata.title]

\* C18 (the claim as stated): combined_temp.mp3 is never among the input
\* files of a run, nor among the originals it may delete.
C18_IntermediateNeverAnInput ==
  /\ combined_file_name \notin Range(mp3_files)
  /\ combined_file_name \notin Range(original_files)

====
